---- MODULE Spec2Model ----
(***************************************************************************)
(* vmal: the assembler (src/src/assembler.rs), the virtual machine         *)
(* (src/src/vm.rs) and the driver (src/src/main.rs) as one state machine.  *)
(*                                                                         *)
(* Representation.  A Rust `isize` that may exceed the model checker's     *)
(* integer range (a literal, a register or memory content) is a limb pair  *)
(* <<hi, lo>> standing for hi * 2^16 + lo with lo in 0..2^16-1 and hi any  *)
(* integer (two's complement, so -1 is <<-1, 65535>>).  A register index   *)
(* or an instruction address, which stays small, is a plain integer.       *)
(***************************************************************************)
EXTENDS Integers, Sequences, FiniteSets, TLC

\* ------------------------------------------------------------------ isize
Limb == 256 * 256

V(n) == <<n \div Limb, n % Limb>>

IntOf(v) == v[1] * Limb + v[2]

VAdd(a, b) ==
  LET s == a[2] + b[2] IN <<a[1] + b[1] + (s \div Limb), s % Limb>>

VMulSmall(a, k) ==
  LET p == a[2] * k IN <<a[1] * k + (p \div Limb), p % Limb>>

VNeg(a) == IF a[2] = 0 THEN <<-a[1], 0>> ELSE <<-a[1] - 1, Limb - a[2]>>

\* !x on a two's complement integer is -x - 1
VNot(a) == <<-a[1] - 1, Limb - 1 - a[2]>>

RECURSIVE BitAnd(_, _)
BitAnd(a, b) ==
  IF a = 0 \/ b = 0 THEN 0
  ELSE IF a = -1 THEN b
  ELSE IF b = -1 THEN a
  ELSE (a % 2) * (b % 2) + 2 * BitAnd(a \div 2, b \div 2)

VAnd(a, b) == <<BitAnd(a[1], b[1]), BitAnd(a[2], b[2])>>

\* x << 1 and x >> 1 (arithmetic) on isize
VShl(a) == VMulSmall(a, 2)

VShr(a) == <<a[1] \div 2, (a[1] % 2) * (Limb \div 2) + (a[2] \div 2)>>

VLt(a, b) == a[1] < b[1] \/ (a[1] = b[1] /\ a[2] < b[2])

\* const INT_MAX: isize = 0xffffffff
INT_MAX == <<Limb - 1, Limb - 1>>

\* the literal 0x80000000 of VM::SF
SIGN_BIT == <<Limb \div 2, 0>>

\* ---------------------------------------------------------------- strings
\* A Rust string is a string; At(s, k) is its k-th character (1-based).
At(s, k) == SubSeq(s, k, k)

WhiteSpace == {" ", "\t", "\n", "\r"}

RECURSIVE trim_start(_)
trim_start(s) ==
  IF s = "" THEN s
  ELSE IF Head(s) \in WhiteSpace THEN trim_start(Tail(s)) ELSE s

RECURSIVE trim_end(_)
trim_end(s) ==
  IF s = "" THEN s
  ELSE IF At(s, Len(s)) \in WhiteSpace THEN trim_end(SubSeq(s, 1, Len(s) - 1))
  ELSE s

trim(s) == trim_end(trim_start(s))

\* index of the first occurrence of the character c in s at or after k, 0
\* when there is none
RECURSIVE find_from(_, _, _)
find_from(s, c, k) ==
  IF k > Len(s) THEN 0 ELSE IF At(s, k) = c THEN k ELSE find_from(s, c, k + 1)

find(s, c) == find_from(s, c, 1)

\* str::split_once: <<>> for None, <<before, after>> for Some
split_once(s, c) ==
  LET k == find(s, c) IN
  IF k = 0 THEN <<>> ELSE <<SubSeq(s, 1, k - 1), SubSeq(s, k + 1, Len(s))>>

\* str::split: the sequence of the pieces between the separators
RECURSIVE split(_, _)
split(s, c) ==
  LET k == find(s, c) IN
  IF k = 0 THEN <<s>>
  ELSE <<SubSeq(s, 1, k - 1)>> \o split(SubSeq(s, k + 1, Len(s)), c)

LowerCase == "abcdefghijklmnopqrstuvwxyz"
UpperCase == "ABCDEFGHIJKLMNOPQRSTUVWXYZ"
DecDigits == "0123456789"

RECURSIVE to_uppercase(_)
to_uppercase(s) ==
  IF s = "" THEN s
  ELSE (IF find(LowerCase, Head(s)) # 0 THEN At(UpperCase, find(LowerCase, Head(s)))
        ELSE Head(s)) \o to_uppercase(Tail(s))

\* char::to_digit for a radix up to 36; 36 when c is no digit of any radix
to_digit(c) ==
  IF find(DecDigits, c) # 0 THEN find(DecDigits, c) - 1
  ELSE IF find(LowerCase, c) # 0 THEN find(LowerCase, c) + 9
  ELSE IF find(UpperCase, c) # 0 THEN find(UpperCase, c) + 9
  ELSE Len(DecDigits) + Len(LowerCase)

Ok(v) == [ok |-> TRUE, val |-> v, err |-> ""]
Err(e) == [ok |-> FALSE, val |-> V(0), err |-> e]

RECURSIVE accumulate(_, _, _)
accumulate(digits, radix, acc) ==
  IF digits = "" THEN acc
  ELSE accumulate(Tail(digits), radix,
                  VAdd(VMulSmall(acc, radix), V(to_digit(Head(digits)))))

\* isize::from_str_radix: an optional sign, then one or more digits of the
\* radix.  (Its overflow error needs more than 15 hex digits; the source
\* lines below are shorter.)
from_str_radix(s, radix) ==
  IF s = "" THEN Err("empty")
  ELSE
    LET digits == IF Head(s) \in {"+", "-"} THEN Tail(s) ELSE s IN
    IF digits = "" \/ \E k \in 1..Len(digits) : to_digit(At(digits, k)) >= radix
    THEN Err("invalid digit")
    ELSE LET m == accumulate(digits, radix, V(0)) IN
         Ok(IF Head(s) = "-" THEN VNeg(m) ELSE m)

starts_with(s, p) == Len(s) >= Len(p) /\ SubSeq(s, 1, Len(p)) = p

ends_with(s, p) == Len(s) >= Len(p) /\ SubSeq(s, Len(s) - Len(p) + 1, Len(s)) = p

\* str::strip_prefix: <<>> for None, <<rest>> for Some
strip_prefix(s, p) ==
  IF starts_with(s, p) THEN <<SubSeq(s, Len(p) + 1, Len(s))>> ELSE <<>>

\* variant: the digits after 0b read in radix 16
parse_number_binary_as_hex(s) ==
  LET a == strip_prefix(s, "0x")
      b == strip_prefix(s, "0b")
  IN
  IF a # <<>> THEN
    (IF from_str_radix(a[1], 16).ok THEN from_str_radix(a[1], 16)
     ELSE Err("hexadecimal"))
  ELSE IF b # <<>> THEN
    (IF from_str_radix(b[1], 16).ok THEN from_str_radix(b[1], 16)
     ELSE Err("binary"))
  ELSE IF from_str_radix(s, 10).ok THEN from_str_radix(s, 10)
  ELSE Err("character")

parse_number(s) ==
  LET a == strip_prefix(s, "0x")
      b == strip_prefix(s, "0b")
  IN
  IF a # <<>> THEN
    (IF from_str_radix(a[1], 16).ok THEN from_str_radix(a[1], 16)
     ELSE Err("hexadecimal"))
  ELSE IF b # <<>> THEN
    (IF from_str_radix(b[1], 2).ok THEN from_str_radix(b[1], 2)
     ELSE Err("binary"))
  ELSE IF from_str_radix(s, 10).ok THEN from_str_radix(s, 10)
  ELSE Err("character")

\* IS_CNAME.is_match: the pattern [_a-zA-Z][_a-zA-Z0-9]* is not anchored, so
\* it matches as soon as one character of the text can start an identifier
IS_CNAME(s) ==
  \E k \in 1..Len(s) :
    At(s, k) = "_" \/ find(LowerCase, At(s, k)) # 0 \/ find(UpperCase, At(s, k)) # 0

\* -------------------------------------------------------------- assembler
\* OP_MAP, LABEL_OPS, ZERO_ARG_OPS, ONE_REG_OPS, TWO_REG_OPS (lazy_static)
OP_MAP ==
  ("SA" :> 0) @@ ("RB" :> 1) @@ ("RD" :> 2) @@ ("WR" :> 3) @@ ("SB" :> 4) @@
  ("SF" :> 5) @@ ("LBL" :> -1) @@ ("GO" :> 6) @@ ("BIN" :> 7) @@ ("BIZ" :> 8) @@
  ("ADD" :> 9) @@ ("AND" :> 10) @@ ("MV" :> 11) @@ ("NOT" :> 12) @@
  ("RS" :> 13) @@ ("LS" :> 14) @@ ("SW" :> 15) @@ ("PRINT" :> 16)

LABEL_OPS == {-1, 6, 7, 8}
ZERO_ARG_OPS == {2, 3, 16}
ONE_REG_OPS == {0, 1, 4, 5}
TWO_REG_OPS == {9, 10, 11, 12, 13, 14, 15}

\* What one line of the source does.  An outcome is one of
\*   [kind |-> "skip"]                       blank or comment only
\*   [kind |-> "error", msg]                 print_error: the process exits
\*   [kind |-> "reg_init" | "mem_init", loc, val]
\*   [kind |-> "label", name, addr]          LBL
\*   [kind |-> "ins", ins]                   a PreInstruction, <<op, operands..>>
Fail(msg) == [kind |-> "error", msg |-> msg]

Emit(ins) == [kind |-> "ins", ins |-> ins]

\* variant: the comment is kept in the statement
statement_with_comment(line) == trim(line)

\* the text before '#', trimmed (assemble, lines 124-128)
statement(line) ==
  LET a == split_once(line, "#") IN trim(IF a = <<>> THEN line ELSE a[1])

\* args.trim().split(",").map(trim).filter(non-empty)   (lines 221-226)
arguments(args) ==
  LET pieces == split(trim(args), ",")
      trimmed == [k \in 1..Len(pieces) |-> trim(pieces[k])]
  IN SelectSeq(trimmed, LAMBDA x : x # "")

\* `<loc>: <val>` (lines 151-205)
initializer(bpart, epart) ==
  LET loc == trim(bpart)
      val == parse_number(trim(epart))
  IN
  IF Len(loc) = 1 THEN
    IF ~from_str_radix(loc, 16).ok
    THEN Fail("Invalid register in register initializer")
    ELSE IF ~val.ok THEN Fail("Invalid literal in initializer")
    ELSE [kind |-> "reg_init", loc |-> IntOf(from_str_radix(loc, 16).val),
          val |-> val.val]
  ELSE IF starts_with(loc, "[") /\ ends_with(loc, "]") THEN
    LET mem_str == SubSeq(loc, 2, Len(loc) - 1) IN
    IF ~parse_number(mem_str).ok THEN Fail("Invalid literal in memory initializer")
    ELSE IF ~val.ok THEN Fail("Invalid literal in initializer")
    ELSE [kind |-> "mem_init", loc |-> parse_number(mem_str).val, val |-> val.val]
  ELSE Fail("Invalid syntax for register/memory initializer")

\* variant: the label bound to the instruction following its declaration
label_address_following(n) == n

\* the address an LBL binds when n instructions have been emitted (line 263)
label_address(n) == n - 1

\* variant: LBL without the redefinition check
label_op_redefining(op, args, n, lm) ==
  IF Len(args) > 1 THEN Fail("Too many arguments")
  ELSE IF Len(args) < 1 THEN Fail("Not enough arguments")
  ELSE IF OP_MAP[op] = -1 THEN
    IF ~IS_CNAME(args[1]) THEN Fail("Label name is not a valid cname")
    ELSE [kind |-> "label", name |-> args[1], addr |-> n - 1]
  ELSE Emit(<<op, args[1]>>)

\* LBL, GO, BIN, BIZ (lines 227-275); n = instructions.len()
label_op(op, args, n, lm) ==
  IF Len(args) > 1 THEN Fail("Too many arguments")
  ELSE IF Len(args) < 1 THEN Fail("Not enough arguments")
  ELSE
    LET lbl == args[1] IN
    IF OP_MAP[op] = -1 THEN
      IF ~IS_CNAME(lbl) THEN Fail("Label name is not a valid cname")
      ELSE IF lbl \in DOMAIN lm THEN Fail("Label already defined")
      ELSE [kind |-> "label", name |-> lbl, addr |-> label_address(n)]
    ELSE Emit(<<op, lbl>>)

\* RD, WR, PRINT (lines 276-296)
zero_arg_op(op, args) ==
  IF Len(args) > 0 THEN Fail("Too many arguments") ELSE Emit(<<op>>)

\* SA, RB, SB, SF (lines 297-339)
one_reg_op(op, args) ==
  IF Len(args) > 1 THEN Fail("Too many arguments")
  ELSE IF Len(args) < 1 THEN Fail("Not enough arguments")
  ELSE IF Len(args[1]) > 1 THEN Fail("Invalid register specifier")
  ELSE IF ~from_str_radix(args[1], 16).ok THEN Fail("Invalid register specifier")
  ELSE Emit(<<op, IntOf(from_str_radix(args[1], 16).val)>>)

\* variant: two-register operations without the upper check on the count
two_reg_op_lenient(op, args) ==
  IF Len(args) < 2 THEN Fail("Not enough arguments")
  ELSE IF ~from_str_radix(args[1], 16).ok THEN Fail("Invalid register specifier")
  ELSE IF ~from_str_radix(args[2], 16).ok THEN Fail("Invalid register specifier")
  ELSE Emit(<<op, IntOf(from_str_radix(args[1], 16).val),
              IntOf(from_str_radix(args[2], 16).val)>>)

\* ADD, AND, MV, NOT, RS, LS, SW (lines 341-390)
two_reg_op(op, args) ==
  IF Len(args) > 2 THEN Fail("Too many arguments")
  ELSE IF Len(args) < 2 THEN Fail("Not enough arguments")
  ELSE IF ~from_str_radix(args[1], 16).ok THEN Fail("Invalid register specifier")
  ELSE IF ~from_str_radix(args[2], 16).ok THEN Fail("Invalid register specifier")
  ELSE Emit(<<op, IntOf(from_str_radix(args[1], 16).val),
              IntOf(from_str_radix(args[2], 16).val)>>)

\* an instruction line (lines 208-390)
instruction(text, n, lm) ==
  LET code == trim(text)
      a == split_once(code, " ")
      op == to_uppercase(IF a = <<>> THEN code ELSE a[1])
      space == IF a = <<>> THEN "" ELSE " "
      args == arguments(IF a = <<>> THEN "" ELSE a[2])
  IN
  IF op # "RD" /\ op # "WR" /\ op # "PRINT" /\ space # " "
  THEN Fail("Unknown character sequence")
  ELSE IF op \notin DOMAIN OP_MAP THEN Fail("Unknown operation")
  ELSE IF OP_MAP[op] \in LABEL_OPS THEN label_op(op, args, n, lm)
  ELSE IF OP_MAP[op] \in ZERO_ARG_OPS THEN zero_arg_op(op, args)
  ELSE IF OP_MAP[op] \in ONE_REG_OPS THEN one_reg_op(op, args)
  ELSE IF OP_MAP[op] \in TWO_REG_OPS THEN two_reg_op(op, args)
  ELSE [kind |-> "skip"]

\* the body of the loop over the lines (lines 123-391)
line_outcome(line, n, lm) ==
  LET code == statement(line)
      a == split_once(code, ";")
  IN
  IF code = "" THEN [kind |-> "skip"]
  ELSE IF a = <<>> THEN Fail("Missing semicolon")
  ELSE IF trim(a[2]) # "" THEN Fail("Extra non-comment character sequence after semicolon")
  ELSE
    LET b == split_once(a[1], ":") IN
    IF b # <<>> THEN initializer(b[1], b[2]) ELSE instruction(a[1], n, lm)

\* ------------------------------------------------------------------- VM
Registers == 0..15

\* HashMap::insert
insert(map, k, v) == [x \in (DOMAIN map) \cup {k} |-> IF x = k THEN v ELSE map[x]]

RECURSIVE apply_reg_inits(_, _)
apply_reg_inits(registers, inits) ==
  IF inits = <<>> THEN registers
  ELSE apply_reg_inits(
         [registers EXCEPT ![Head(inits)[1]] = VAnd(Head(inits)[2], INT_MAX)],
         Tail(inits))

RECURSIVE apply_mem_inits(_, _)
apply_mem_inits(memory, inits) ==
  IF inits = <<>> THEN memory
  ELSE apply_mem_inits(
         insert(memory, Head(inits)[1], VAnd(Head(inits)[2], INT_MAX)),
         Tail(inits))

\* variant: nothing forced after the initializers
forced_none(registers) == registers

\* the registers VM::new forces after the initializers (lines 58-61)
forced(registers) ==
  [registers EXCEPT ![0] = V(0), ![5] = V(0), ![6] = V(1), ![7] = INT_MAX]

\* VM::new
new(reg_inits, mem_inits) ==
  [registers |-> forced(apply_reg_inits([r \in Registers |-> V(0)], reg_inits)),
   memory |-> apply_mem_inits(<<>>, mem_inits),
   MAR |-> V(0), MBR |-> V(0), N |-> FALSE, Z |-> FALSE]

SA(self, x) == [self EXCEPT !.MAR = self.registers[x]]

RB(self, x) == [self EXCEPT !.registers[x] = self.MAR]

RD(self) ==
  [self EXCEPT !.MBR = IF self.MAR \in DOMAIN self.memory
                       THEN self.memory[self.MAR] ELSE V(0)]

WR(self) == [self EXCEPT !.memory = insert(self.memory, self.MAR, self.MBR)]

SB(self, x) == [self EXCEPT !.MBR = self.registers[x]]

\* variant: N set when the sign bit is set
SFinverted(self, x) ==
  [self EXCEPT !.Z = (self.registers[x] = V(0)),
               !.N = (VAnd(self.registers[x], SIGN_BIT) # V(0))]

SF(self, x) ==
  [self EXCEPT !.Z = (self.registers[x] = V(0)),
               !.N = (VAnd(self.registers[x], SIGN_BIT) = V(0))]

\* variant: a branch that lands on the instruction after its operand
GO_past(self, i) == [self EXCEPT !.registers[0] = V(i + 1)]

GO(self, i) == [self EXCEPT !.registers[0] = V(i)]

\* variant: BIN branching on Z
BIN_on_zero(self, i) == IF self.Z THEN [self EXCEPT !.registers[0] = V(i)] ELSE self

BIN(self, i) == IF self.N THEN [self EXCEPT !.registers[0] = V(i)] ELSE self

BIZ(self, i) == IF self.Z THEN [self EXCEPT !.registers[0] = V(i)] ELSE self

\* variant: the sum stored without the mask
ADD_unmasked(self, a, b) ==
  [self EXCEPT !.registers[a] = VAdd(self.registers[a], self.registers[b])]

ADD(self, a, b) ==
  [self EXCEPT !.registers[a] =
     VAnd(VAdd(self.registers[a], self.registers[b]), INT_MAX)]

AND(self, a, b) ==
  [self EXCEPT !.registers[a] =
     VAnd(VAnd(self.registers[a], self.registers[b]), INT_MAX)]

MV(self, a, b) == [self EXCEPT !.registers[a] = self.registers[b]]

NOT(self, a, b) ==
  [self EXCEPT !.registers[a] = VAnd(VNot(self.registers[b]), INT_MAX)]

LS(self, a, b) ==
  [self EXCEPT !.registers[a] = VAnd(VShl(self.registers[b]), INT_MAX)]

RS(self, a, b) ==
  [self EXCEPT !.registers[a] = VAnd(VShr(self.registers[b]), INT_MAX)]

SW(self, a, b) ==
  [self EXCEPT !.MAR = self.registers[a],
               !.MBR = self.registers[b],
               !.memory = insert(self.memory, self.registers[a], self.registers[b])]

\* the opcodes run_op's match has an arm for (lines 139-156): PRINT has none
Matched == {"ADD", "AND", "BIN", "BIZ", "GO", "LS", "MV", "NOT", "RB", "RD",
            "RS", "SW", "SA", "SB", "SF", "WR"}

\* the register operands an instruction indexes the register file with
reg_operands(ins) ==
  IF ins[1] \in {"SA", "RB", "SB", "SF"} THEN {ins[2]}
  ELSE IF ins[1] \in {"ADD", "AND", "MV", "NOT", "RS", "LS", "SW"}
  THEN {ins[2], ins[3]}
  ELSE {}

\* registers[x as usize] panics when x is no index of the 16 registers
index_panics(ins) == \E x \in reg_operands(ins) : x \notin Registers

\* VM::run_op
run_op(self, ins) ==
  CASE ins[1] = "ADD" -> ADD(self, ins[2], ins[3])
    [] ins[1] = "AND" -> AND(self, ins[2], ins[3])
    [] ins[1] = "BIN" -> BIN(self, ins[2])
    [] ins[1] = "BIZ" -> BIZ(self, ins[2])
    [] ins[1] = "GO" -> GO(self, ins[2])
    [] ins[1] = "LS" -> LS(self, ins[2], ins[3])
    [] ins[1] = "MV" -> MV(self, ins[2], ins[3])
    [] ins[1] = "NOT" -> NOT(self, ins[2], ins[3])
    [] ins[1] = "RB" -> RB(self, ins[2])
    [] ins[1] = "RD" -> RD(self)
    [] ins[1] = "RS" -> RS(self, ins[2], ins[3])
    [] ins[1] = "SW" -> SW(self, ins[2], ins[3])
    [] ins[1] = "SA" -> SA(self, ins[2])
    [] ins[1] = "SB" -> SB(self, ins[2])
    [] ins[1] = "SF" -> SF(self, ins[2])
    [] ins[1] = "WR" -> WR(self)

\* self.registers[0] += 1 (lines 162 and 234)
increment(self) == [self EXCEPT !.registers[0] = VAdd(self.registers[0], V(1))]

\* the loop condition self.registers[0] < code.len() as isize
in_code(self, code) == VLt(self.registers[0], V(Len(code)))

\* ------------------------------------------------------------ the program
VARIABLES
  src,           \* the lines of the input file, file.split("\n")
  opt_debug,     \* Opt.debug
  pc,            \* where the process is
  i,             \* assemble: the 0-based number of the next line
  instructions,  \* assemble: Vec<PreInstruction>
  lbl_lines,     \* assemble: instruction index -> line number of a GO/BIN/BIZ
  label_map,     \* assemble: label name -> address
  reg_inits,     \* Assembly.reg_inits
  mem_inits,     \* Assembly.mem_inits
  code,          \* Assembly.instructions
  err,           \* print_error: the 1-based line number and the message
  vm,            \* the VM
  breakpoints,   \* run_debug
  cont,          \* run_debug
  debug,         \* run_debug
  completed,     \* run_debug's return value, once it returned
  op,            \* run_code / run_debug: the instruction last fetched
  steps          \* instructions executed so far

vars == <<src, opt_debug, pc, i, instructions, lbl_lines, label_map, reg_inits,
          mem_inits, code, err, vm, breakpoints, cont, debug, completed, op,
          steps>>

asm_vars == <<instructions, lbl_lines, label_map, reg_inits, mem_inits>>
dbg_vars == <<breakpoints, cont, debug, completed>>

\* ----- bounds of the model
MaxLines == 3
MaxAsmLines == 2
MaxLabelLines == 3
MaxArithLines == 2
MaxInitLines == 3
MaxSteps == 6

\* the source files of at most n lines over a set of lines
Programs(lines, n) == UNION {[1..k -> lines] : k \in 1..n}

\* the state when main calls Assembly::assemble
Start(files, debugs) ==
  /\ src \in files
  /\ opt_debug \in debugs
  /\ pc = "assemble"
  /\ i = 0
  /\ instructions = <<>>
  /\ lbl_lines = <<>>
  /\ label_map = <<>>
  /\ reg_inits = <<>>
  /\ mem_inits = <<>>
  /\ code = <<>>
  /\ err = [line |-> 0, msg |-> ""]
  /\ vm = new(<<>>, <<>>)
  /\ breakpoints = {}
  /\ cont = FALSE
  /\ debug = TRUE
  /\ completed = "none"
  /\ op = <<>>
  /\ steps = 0

\* variant: the diagnostic carries the loop's 0-based index
print_error_zero_based(k, msg) == [line |-> k, msg |-> msg]

\* print_error (lines 78-82): the diagnostic names line k + 1, and the process
\* exits
print_error(k, msg) == [line |-> k + 1, msg |-> msg]

\* one turn of the loop over the lines (assemble, lines 123-391)
assemble_line ==
  /\ pc = "assemble"
  /\ i < Len(src)
  /\ \E r \in {line_outcome(src[i + 1], Len(instructions), label_map)} :
     /\ pc' = IF r.kind = "error" THEN "failed" ELSE "assemble"
     /\ err' = IF r.kind = "error" THEN print_error(i, r.msg) ELSE err
     /\ i' = IF r.kind = "error" THEN i ELSE i + 1
     /\ reg_inits' = IF r.kind = "reg_init"
                     THEN Append(reg_inits, <<r.loc, r.val>>) ELSE reg_inits
     /\ mem_inits' = IF r.kind = "mem_init"
                     THEN Append(mem_inits, <<r.loc, r.val>>) ELSE mem_inits
     /\ label_map' = IF r.kind = "label"
                     THEN insert(label_map, r.name, r.addr) ELSE label_map
     /\ lbl_lines' = IF r.kind = "ins" /\ r.ins[1] \in {"GO", "BIN", "BIZ"}
                     THEN insert(lbl_lines, Len(instructions), i) ELSE lbl_lines
     /\ instructions' = IF r.kind = "ins"
                        THEN Append(instructions, r.ins) ELSE instructions
  /\ UNCHANGED <<src, opt_debug, code, vm, op, steps>>
  /\ UNCHANGED dbg_vars

IsLabelRef(x) == x[1] \in {"GO", "BIN", "BIZ"}

\* the address a pending reference resolves to (label_map.get, lines 403-423)
lookup(lm, name) == lm[name]

\* PreInstruction -> Instruction (lines 395-431)
resolved(x, lm) == IF IsLabelRef(x) THEN <<x[1], lookup(lm, x[2])>> ELSE x

\* variant: the last unresolved reference reported
last_unresolved(unresolved) ==
  CHOOSE j \in unresolved : \A k \in unresolved : j >= k

\* the iterator stops at the first reference label_map has no entry for
first_unresolved(unresolved) ==
  CHOOSE j \in unresolved : \A k \in unresolved : j <= k

\* the final pass (lines 392-434): the first unresolved reference exits
resolve ==
  /\ pc = "assemble"
  /\ i = Len(src)
  /\ LET unresolved == {j \in 1..Len(instructions) :
                          IsLabelRef(instructions[j])
                          /\ instructions[j][2] \notin DOMAIN label_map}
     IN
     IF unresolved # {} THEN
       LET j == first_unresolved(unresolved) IN
       /\ pc' = "failed"
       /\ err' = print_error(lbl_lines[j - 1], "Undefined label reference")
       /\ code' = code
     ELSE
       /\ pc' = "assembled"
       /\ err' = err
       /\ code' = [j \in 1..Len(instructions) |-> resolved(instructions[j], label_map)]
  /\ UNCHANGED <<src, opt_debug, i, vm, op, steps>>
  /\ UNCHANGED asm_vars
  /\ UNCHANGED dbg_vars

\* main, lines 44-51: construct the VM and enter run_code or run_debug
start ==
  /\ pc = "assembled"
  /\ vm' = new(reg_inits, mem_inits)
  /\ pc' = IF opt_debug THEN "run_debug" ELSE "run_code"
  /\ UNCHANGED <<src, opt_debug, i, code, err, op, steps>>
  /\ UNCHANGED asm_vars
  /\ UNCHANGED dbg_vars

\* fetch, run_op, increment: the body both loops share (lines 160-162 and
\* 172, 233-234).  A negative registers[0] as usize and a register operand
\* outside the register file panic on the index; PRINT has no arm in run_op.
fetch(self, prog) == prog[IntOf(self.registers[0]) + 1]

execute(self, prog) ==
  IF self.registers[0][1] < 0 THEN [pc |-> "panicked", vm |-> self, op |-> <<>>]
  ELSE IF fetch(self, prog)[1] \notin Matched
  THEN [pc |-> "unmatched", vm |-> self, op |-> fetch(self, prog)]
  ELSE IF index_panics(fetch(self, prog))
  THEN [pc |-> "panicked", vm |-> self, op |-> fetch(self, prog)]
  ELSE [pc |-> "ok", vm |-> increment(run_op(self, fetch(self, prog))),
        op |-> fetch(self, prog)]

\* VM::run_code: one turn of the loop
run_code_step ==
  /\ pc = "run_code"
  /\ in_code(vm, code)
  /\ steps < MaxSteps
  /\ \E r \in {execute(vm, code)} :
     /\ vm' = r.vm
     /\ op' = r.op
     /\ pc' = IF r.pc = "ok" THEN "run_code" ELSE r.pc
  /\ steps' = steps + 1
  /\ UNCHANGED <<src, opt_debug, i, code, err>>
  /\ UNCHANGED asm_vars
  /\ UNCHANGED dbg_vars

\* VM::run_code: the loop condition fails and main goes on to print
run_code_return ==
  /\ pc = "run_code"
  /\ ~in_code(vm, code)
  /\ pc' = "exited"
  /\ UNCHANGED <<src, opt_debug, i, code, err, vm, op, steps>>
  /\ UNCHANGED asm_vars
  /\ UNCHANGED dbg_vars

\* variant: continue-mode does not pass over the addresses without breakpoint
prompts_while_debug(self, bps, c, d) == d

\* variant: run-to-completion still stops
prompts_after_r(self, bps, c, d) == ~c \/ self.registers[0] \in bps

\* VM::run_debug, line 174: does this turn of the loop stop and prompt?
prompts(self, bps, c, d) == d /\ (~c \/ self.registers[0] \in bps)

\* VM::run_debug: a turn of the loop that prompts: display, then block on
\* stdin.read_line (lines 170-199)
run_debug_display ==
  /\ pc = "run_debug"
  /\ in_code(vm, code)
  /\ prompts(vm, breakpoints, cont, debug)
  /\ pc' = IF vm.registers[0][1] < 0 THEN "panicked" ELSE "prompt"
  /\ op' = IF vm.registers[0][1] < 0 THEN op ELSE fetch(vm, code)
  /\ UNCHANGED <<src, opt_debug, i, code, err, vm, steps>>
  /\ UNCHANGED asm_vars
  /\ UNCHANGED dbg_vars

\* variant: a turn that does not prompt passes over its instruction
run_debug_step_skipping ==
  /\ pc = "run_debug"
  /\ in_code(vm, code)
  /\ ~prompts(vm, breakpoints, cont, debug)
  /\ steps < MaxSteps
  /\ vm' = increment(vm)
  /\ op' = fetch(vm, code)
  /\ pc' = "run_debug"
  /\ steps' = steps + 1
  /\ UNCHANGED <<src, opt_debug, i, code, err>>
  /\ UNCHANGED asm_vars
  /\ UNCHANGED dbg_vars

\* VM::run_debug: a turn of the loop that does not prompt (lines 170-174, 233-234)
run_debug_step ==
  /\ pc = "run_debug"
  /\ in_code(vm, code)
  /\ ~prompts(vm, breakpoints, cont, debug)
  /\ steps < MaxSteps
  /\ \E r \in {execute(vm, code)} :
     /\ vm' = r.vm
     /\ op' = r.op
     /\ pc' = IF r.pc = "ok" THEN "run_debug" ELSE r.pc
  /\ steps' = steps + 1
  /\ UNCHANGED <<src, opt_debug, i, code, err>>
  /\ UNCHANGED asm_vars
  /\ UNCHANGED dbg_vars

\* the lines the operator may type
Inputs == {"n\n", "\n", "b\n", "c\n", "r\n", "q\n", "x\n", "Quit\n", " N\n"}

\* variant: only a line that is exactly one command letter is a command
command_exact(line) ==
  LET s == trim(line) IN
  IF Len(s) = 0 THEN "n"
  ELSE IF s \in {"n", "b", "c", "r", "q"} THEN s
  ELSE "?"

\* variant: a line starting with q steps
command_q_steps(line) ==
  LET s == trim(line) IN
  IF Len(s) = 0 \/ Head(s) \in {"q", "Q"} THEN "n"
  ELSE IF find(UpperCase, Head(s)) # 0 THEN At(LowerCase, find(UpperCase, Head(s)))
  ELSE Head(s)

\* lines 202-207: the command letter of an input line
command(line) ==
  LET s == trim(line) IN
  IF Len(s) = 0 THEN "n"
  ELSE IF find(UpperCase, Head(s)) # 0 THEN At(LowerCase, find(UpperCase, Head(s)))
  ELSE Head(s)

\* variant: b only ever turns a breakpoint on
toggle_adding(set, x) == set \cup {x}

\* lines 212-218: remove the address if the set contains it, insert it if not
toggle(set, x) == IF x \in set THEN set \ {x} ELSE set \cup {x}

\* VM::run_debug: the operator's line arrives at the prompt (lines 198-234)
read(line) ==
  /\ pc = "prompt"
  /\ LET s == command(line) IN
     IF s = "b" THEN
       /\ breakpoints' = toggle(breakpoints, vm.registers[0])
       /\ UNCHANGED <<pc, vm, cont, debug, completed, steps>>
     ELSE IF s = "q" THEN
       /\ completed' = "false"
       /\ pc' = "exited"
       /\ UNCHANGED <<vm, breakpoints, cont, debug, steps>>
     ELSE IF s \notin {"n", "c", "r"} THEN
       /\ pc' = "panicked"
       /\ UNCHANGED <<vm, breakpoints, cont, debug, completed, steps>>
     ELSE
       /\ steps < MaxSteps
       /\ cont' = IF s = "c" THEN ~cont ELSE cont
       /\ debug' = IF s = "r" THEN FALSE ELSE debug
       /\ \E r \in {execute(vm, code)} :
          /\ vm' = r.vm
          /\ pc' = IF r.pc = "ok" THEN "run_debug" ELSE r.pc
       /\ steps' = steps + 1
       /\ UNCHANGED <<breakpoints, completed>>
  /\ UNCHANGED <<src, opt_debug, i, code, err, op>>
  /\ UNCHANGED asm_vars

read_line == \E line \in Inputs : read(line)

\* VM::run_debug: the loop condition fails (lines 170, 236-237)
run_debug_return ==
  /\ pc = "run_debug"
  /\ ~in_code(vm, code)
  /\ completed' = "true"
  /\ pc' = "exited"
  /\ UNCHANGED <<src, opt_debug, i, code, err, vm, op, steps>>
  /\ UNCHANGED asm_vars
  /\ UNCHANGED <<breakpoints, cont, debug>>

\* ---------------------------------------------------------- specifications
\* Spec: the whole program, batch and debug, on sources of labels, branches
\* and flag tests.
RunLines == {"LBL a;", "LBL b;", "GO a;", "BIZ a;", "BIN b;", "SF 5;", "SF 6;",
             "ADD 1, 6;"}

\* the sources run under --debug, where every prompt branches on the
\* operator's input
DebugLines == {"LBL a;", "GO a;", "BIZ a;", "BIN a;", "SF 5;"}

Init ==
  \/ Start(Programs(RunLines, MaxLines), {FALSE})
  \/ Start(Programs(DebugLines, MaxLines), {TRUE})

NextAsm == assemble_line \/ resolve

NextBatch == NextAsm \/ start \/ run_code_step \/ run_code_return

Next ==
  \/ NextBatch
  \/ run_debug_display
  \/ run_debug_step
  \/ read_line
  \/ run_debug_return

Spec == Init /\ [][Next]_vars

\* SpecAsm: the assembler alone, on well-formed and malformed lines.
AsmLines == {"", "# c", "LBL a;", "lbl b; # c", "LBL a, b;", "GO a;", "BIZ b;",
             "bin a;", "GO;", "GO a, b;", "ADD E, 7;", "AdD 1,,2;",
             "ADD 1F, 2;", "MV 3, -1;", "NOT 1;", "LS 1, 2, 3;", "SF E;",
             "SA 1F;", "SB ,;", "RB 1, 2;", "RD;", "WR 1;", "PRINT ;",
             "FOO 1;", "SW 1, 2", "4: 0x1D;"}

InitAsm == Start(Programs(AsmLines, MaxAsmLines), {FALSE})

SpecAsm == InitAsm /\ [][NextAsm]_vars

\* SpecLabels: the assembler alone, on label declarations and references.
LabelLines == {"LBL Jump;", "LBL b;", "ADD E, 7;", "SF E;", "BIZ Jump;",
               "GO b;", "4: 0x1D;", "# c"}

\* the source of test_instructions (assembler.rs, line 479)
TestProgram == <<"LBL Jump;", "ADD E, 7;", "SF E;", "BIZ Jump;">>

InitLabels == Start(Programs(LabelLines, MaxLabelLines) \cup {TestProgram}, {FALSE})

SpecLabels == InitLabels /\ [][NextAsm]_vars

\* SpecArith: batch runs of an initializer block followed by arithmetic and
\* memory instructions.
InitBlocks == {<<"1: 0x1FFFFFFFF;", "2: 0x80000001;">>,
               <<"2: 0b101;", "[5]: -1;", "3: 0x7FFFFFFF;">>}

ArithLines == {"ADD 1, 7;", "ADD 2, 2;", "AND 1, 2;", "NOT 1, 2;", "LS 1, 2;",
               "RS 3, 2;", "MV 0, 7;", "ADD 0, 6;", "SW 1, 2;", "SA 2;",
               "RD;", "WR;", "SB 7;", "RB 3;"}

ArithFiles ==
  {pre \o body : pre \in InitBlocks, body \in Programs(ArithLines, MaxArithLines)}

InitArith == Start(ArithFiles, {FALSE})

SpecArith == InitArith /\ [][NextBatch]_vars

\* SpecNew: construction of the VM from initializer lists.
InitLines == {"1: 0x1FFFFFFFF;", "1: 7;", "0: 9;", "5: 3;", "6: 0;", "7: 0;",
              "F: -1;", "[16]: -1;", "[0x10]: 7;", "[0b11]: 0x100000002;"}

InitNew == Start(Programs(InitLines, MaxInitLines), {FALSE})

NextNew == NextAsm \/ start \/ run_code_return

SpecNew == InitNew /\ [][NextNew]_vars

\* ------------------------------------------------- the claims' vocabulary
\* What a source line is, read off its text.
body(line) ==
  LET a == split_once(statement(line), ";") IN
  IF a = <<>> THEN statement(line) ELSE trim(a[1])

\* the mnemonic, in upper case, and the text after it
word(line) ==
  LET a == split_once(body(line), " ") IN
  to_uppercase(IF a = <<>> THEN body(line) ELSE a[1])

operand(line) ==
  LET a == split_once(body(line), " ") IN IF a = <<>> THEN "" ELSE trim(a[2])

IsBlank(line) == statement(line) = ""

IsInitializer(line) == ~IsBlank(line) /\ find(body(line), ":") # 0

IsInstruction(line) == ~IsBlank(line) /\ find(body(line), ":") = 0

Declares(line, name) ==
  IsInstruction(line) /\ word(line) = "LBL" /\ operand(line) = name

IsReference(line) == IsInstruction(line) /\ word(line) \in {"GO", "BIN", "BIZ"}

\* a statement line that is neither an LBL nor an initializer
Emits(line) == IsInstruction(line) /\ word(line) # "LBL"

\* the source lines before / after line d that emit an instruction
EmittingBefore(d) == {m \in 1..(d - 1) : Emits(src[m])}
EmittingAfter(d) == {m \in (d + 1)..Len(src) : Emits(src[m])}

\* the lines of the source that declare the label `name`
Declarations(name) == {d \in 1..Len(src) : Declares(src[d], name)}

\* the source line the k-th emitted instruction (1-based) comes from
LineOf(k) ==
  CHOOSE m \in 1..Len(src) : Emits(src[m]) /\ Cardinality(EmittingBefore(m)) = k - 1

\* a value within the 32-bit width
InWidth(v) == v[1] >= 0 /\ v[1] < Limb /\ v[2] >= 0 /\ v[2] < Limb

\* v mod 2^32
Wrap(v) == <<v[1] % Limb, v[2]>>

\* ---------------------------------------------------------------- claims
\* a turn of either loop ran an instruction to its end
Executed ==
  /\ pc \in {"run_code", "run_debug", "prompt"}
  /\ steps' = steps + 1
  /\ pc' \in {"run_code", "run_debug"}

\* the instruction that turn ran, as the assembler kept it before resolution
Pending == instructions[IntOf(vm.registers[0]) + 1]

BranchTaken ==
  \/ Pending[1] = "GO"
  \/ Pending[1] = "BIN" /\ vm.N
  \/ Pending[1] = "BIZ" /\ vm.Z

\* C1: whenever GO L runs, or BIN L / BIZ L runs with its flag set, the next
\* instruction fetched is the one at index n, the number of instructions
\* emitted before the declaration of L, which is the first instruction after
\* the declaration; when none follows, the loop condition fails and the run
\* ends.
C1_BranchLandsAfterLabel ==
  [][(Executed /\ BranchTaken) =>
       LET d == CHOOSE d \in Declarations(Pending[2]) : TRUE
           n == Cardinality(EmittingBefore(d))
       IN
       /\ vm'.registers[0] = V(n)
       /\ IF EmittingAfter(d) # {}
          THEN /\ in_code(vm', code)
               /\ fetch(vm', code)[1] =
                    word(src[CHOOSE m \in EmittingAfter(d) :
                               \A k \in EmittingAfter(d) : m <= k])
          ELSE ~in_code(vm', code)]_vars

\* C1 witness: a BIZ whose flag was set has just run in the batch loop, and
\* the program counter is one past its operand, inside the program.
C1_Witness ==
  /\ pc = "run_code"
  /\ steps > 0
  /\ op # <<>>
  /\ op[1] = "BIZ"
  /\ vm.Z
  /\ vm.registers[0] = V(op[2] + 1)
  /\ in_code(vm, code)

\* C2: LBL emits no instruction and binds its name to (instructions emitted
\* so far) - 1: the instruction list is as long as the number of statement
\* lines that are neither LBL nor initializer, and a reference to a label
\* declared before any instruction is resolved to -1.
C2_LabelBinding ==
  pc = "assembled" =>
    /\ Len(code) = Cardinality({m \in 1..Len(src) : Emits(src[m])})
    /\ \A d \in 1..Len(src) :
         (IsInstruction(src[d]) /\ word(src[d]) = "LBL") =>
           /\ operand(src[d]) \in DOMAIN label_map
           /\ label_map[operand(src[d])] = Cardinality(EmittingBefore(d)) - 1
    /\ \A j \in 1..Len(code) :
         IsLabelRef(code[j]) =>
           \A d \in Declarations(instructions[j][2]) :
             EmittingBefore(d) = {} => code[j][2] = -1

\* C2 witness: LBL Jump; ADD E, 7; SF E; BIZ Jump; assembled to three
\* instructions, the BIZ with target -1.
C2_Witness ==
  /\ pc = "assembled"
  /\ src = TestProgram
  /\ code = <<(<<"ADD", 14, 7>>), (<<"SF", 14>>), (<<"BIZ", -1>>)>>

\* C3 as stated: every resolved address of a GO, BIN or BIZ is >= 0 and
\* below the number of instructions.
C3_AddressesInCode ==
  pc = "assembled" =>
    \A j \in 1..Len(code) :
      IsLabelRef(code[j]) => (code[j][2] >= 0 /\ code[j][2] < Len(code))

\* C3 amended: every resolved address of a GO, BIN or BIZ is >= -1 and below
\* the number of instructions, and it is -1 exactly when the label is
\* declared before any instruction.
C3_AddressesFromMinusOne ==
  pc = "assembled" =>
    \A j \in 1..Len(code) :
      IsLabelRef(code[j]) =>
        /\ code[j][2] >= -1
        /\ code[j][2] < Len(code)
        /\ (code[j][2] = -1) <=>
             (\A d \in Declarations(instructions[j][2]) : EmittingBefore(d) = {})

\* C3 witness: an assembled program with a branch whose address is -1.
C3_Witness ==
  /\ pc = "assembled"
  /\ \E j \in 1..Len(code) : IsLabelRef(code[j]) /\ code[j][2] = -1

\* C4 as stated: every register operand of every instruction of a successful
\* assembly lies in 0..15.
C4_RegisterOperandsInFile ==
  pc = "assembled" =>
    \A j \in 1..Len(code) : \A x \in reg_operands(code[j]) : x >= 0 /\ x <= 15

\* C5 as stated: after construction and after every executed instruction,
\* every register (register 0 included) and every memory value lies within
\* the 32-bit width.
C5_StoredValuesMasked ==
  pc \in {"run_code", "run_debug", "prompt", "exited"} =>
    /\ \A r \in Registers : InWidth(vm.registers[r])
    /\ \A a \in DOMAIN vm.memory : InWidth(vm.memory[a])

\* bit k (0..31) of a value within the width
Bit(v, k) == IF k < 16 THEN (v[2] \div (2 ^ k)) % 2 ELSE (v[1] \div (2 ^ (k - 16))) % 2

\* C6: ADD a,b stores (ra + rb) mod 2^32, AND the bitwise and, NOT the 32-bit
\* complement of rb, LS (rb * 2) mod 2^32 and RS floor(rb / 2), in register a
\* (when a is register 0, the loop's increment then adds 1 to it).
C6_ArithmeticWraps ==
  [][(Executed /\ fetch(vm, code)[1] \in {"ADD", "AND", "NOT", "LS", "RS"}) =>
       LET ins == fetch(vm, code)
           ra == vm.registers[ins[2]]
           rb == vm.registers[ins[3]]
           res == IF ins[2] = 0 THEN VAdd(vm'.registers[0], V(-1))
                  ELSE vm'.registers[ins[2]]
       IN
       (InWidth(ra) /\ InWidth(rb)) =>
         /\ InWidth(res)
         /\ ins[1] = "ADD" => res = Wrap(VAdd(ra, rb))
         /\ ins[1] = "AND" => \A k \in 0..31 : Bit(res, k) = Bit(ra, k) * Bit(rb, k)
         /\ ins[1] = "NOT" => \A k \in 0..31 : Bit(res, k) = 1 - Bit(rb, k)
         /\ ins[1] = "LS" => res = Wrap(VAdd(rb, rb))
         /\ ins[1] = "RS" => (VAdd(res, res) = rb \/ VAdd(VAdd(res, res), V(1)) = rb)
         /\ \A r \in Registers \ {0, ins[2]} : vm'.registers[r] = vm.registers[r]]_vars

\* C6 witness: ADD 1, 7 has run on 0xFFFFFFFF + 0xFFFFFFFF and register 1
\* holds the wrapped sum 0xFFFFFFFE.
C6_Witness ==
  /\ pc = "run_code"
  /\ steps = 1
  /\ op = <<"ADD", 1, 7>>
  /\ src[1] = "1: 0x1FFFFFFFF;"
  /\ vm.registers[1] = <<Limb - 1, Limb - 2>>

\* the value of the last pair of an initializer list for a key
LastInit(inits, key) ==
  inits[CHOOSE k \in 1..Len(inits) :
          inits[k][1] = key /\ \A m \in (k + 1)..Len(inits) : inits[m][1] # key][2]

\* C7: a newly constructed engine has registers 0, 5, 6, 7 equal to 0, 0, 1,
\* 0xFFFFFFFF whatever the initializers; every other register holds its last
\* initializer mod 2^32 (0 without one), and memory holds exactly the memory
\* initializers mod 2^32.
C7_Construction ==
  (pc = "run_code" /\ steps = 0) =>
    /\ vm.registers[0] = V(0)
    /\ vm.registers[5] = V(0)
    /\ vm.registers[6] = V(1)
    /\ vm.registers[7] = <<Limb - 1, Limb - 1>>
    /\ \A r \in Registers \ {0, 5, 6, 7} :
         vm.registers[r] =
           IF \E k \in 1..Len(reg_inits) : reg_inits[k][1] = r
           THEN Wrap(LastInit(reg_inits, r)) ELSE V(0)
    /\ DOMAIN vm.memory = {mem_inits[k][1] : k \in 1..Len(mem_inits)}
    /\ \A a \in DOMAIN vm.memory : vm.memory[a] = Wrap(LastInit(mem_inits, a))

\* C7 witness: an engine constructed from initializers that target a forced
\* register, carry a value wider than 32 bits, and initialize memory.
C7_Witness ==
  /\ pc = "run_code"
  /\ steps = 0
  /\ \E k \in 1..Len(reg_inits) : reg_inits[k][1] \in {0, 5, 6, 7}
  /\ \E k \in 1..Len(reg_inits) : ~InWidth(reg_inits[k][2])
  /\ mem_inits # <<>>

\* the GO/BIN/BIZ lines of the source whose label no line declares
Undeclared ==
  {m \in 1..Len(src) : IsReference(src[m]) /\ Declarations(operand(src[m])) = {}}

\* every reference of the assembled code carries the address bound to the
\* declaration of its name
ReferencesResolved ==
  \A j \in 1..Len(code) :
    IsLabelRef(code[j]) =>
      /\ word(src[LineOf(j)]) = code[j][1]
      /\ \E d \in Declarations(operand(src[LineOf(j)])) :
           code[j][2] = Cardinality(EmittingBefore(d)) - 1

\* C8 as stated: references resolve to the address of their label wherever
\* it is declared, and when a name referenced by a line the assembler has
\* passed is declared nowhere, the assembly fails citing the line of a
\* referencing instruction.
C8_UndefinedCitesReference ==
  /\ pc = "assembled" => ReferencesResolved
  /\ (pc \in {"assembled", "failed"} /\ \E m \in Undeclared : m <= i) =>
       (pc = "failed" /\ err.line \in Undeclared)

\* C8 amended: when the pass over the lines finds no error, references
\* resolve to the address of their label wherever it is declared, and when
\* some referenced name is declared nowhere the assembly fails citing the
\* line of the first referencing instruction whose label is undeclared.
C8_UndefinedAfterFirstPass ==
  /\ pc = "assembled" => (ReferencesResolved /\ Undeclared = {})
  /\ (pc = "failed" /\ i = Len(src)) =>
       /\ Undeclared # {}
       /\ err.line \in Undeclared
       /\ \A m \in Undeclared : err.line <= m

\* C8 witness: the final pass failed on a source with two references to
\* undeclared labels.
C8_Witness ==
  /\ pc = "failed"
  /\ i = Len(src)
  /\ err.msg = "Undefined label reference"
  /\ Cardinality(Undeclared) >= 2

\* C9: a second LBL of a name already declared is never passed, and in a
\* successful assembly every bound name has exactly one declaration, whose
\* address it carries.
C9_LabelsUnique ==
  /\ pc \in {"assembled", "failed"} =>
       \A d2 \in 1..i : \A d1 \in 1..(d2 - 1) :
         ~(IsInstruction(src[d1]) /\ word(src[d1]) = "LBL"
           /\ Declares(src[d2], operand(src[d1])))
  /\ pc = "assembled" =>
       \A name \in DOMAIN label_map :
         /\ Cardinality(Declarations(name)) = 1
         /\ \A d \in Declarations(name) :
              label_map[name] = Cardinality(EmittingBefore(d)) - 1

\* C9 witness: the assembly stopped on the second declaration of a label.
C9_Witness ==
  /\ pc = "failed"
  /\ err.msg = "Label already defined"
  /\ \E d1 \in 1..i : Declares(src[i + 1], operand(src[d1])) /\ word(src[d1]) = "LBL"

\* the arity of each mnemonic's class
Arity ==
  [m \in {"RD", "WR", "PRINT"} |-> 0] @@
  [m \in {"SA", "RB", "SB", "SF", "GO", "BIN", "BIZ", "LBL"} |-> 1] @@
  [m \in {"ADD", "AND", "MV", "NOT", "RS", "LS", "SW"} |-> 2]

\* the number of comma-separated pieces of s that hold a non-blank character
RECURSIVE CountArgs(_, _)
CountArgs(s, seen) ==
  IF s = "" THEN (IF seen THEN 1 ELSE 0)
  ELSE IF Head(s) = "," THEN (IF seen THEN 1 ELSE 0) + CountArgs(Tail(s), FALSE)
  ELSE CountArgs(Tail(s), seen \/ Head(s) \notin WhiteSpace)

\* C10: every instruction line the assembler has passed has a known mnemonic
\* and as many arguments as the arity of the mnemonic's class.
C10_ArityChecked ==
  \A k \in 1..i :
    IsInstruction(src[k]) =>
      /\ word(src[k]) \in DOMAIN Arity
      /\ CountArgs(operand(src[k]), FALSE) = Arity[word(src[k])]

\* C10 witness: one instruction line was passed and the next was refused for
\* its argument count.
C10_Witness ==
  /\ pc = "failed"
  /\ i = 1
  /\ IsInstruction(src[1])
  /\ err.msg \in {"Too many arguments", "Not enough arguments"}

\* ------------------------------------------------------- C11: first error
\* a line the assembler refuses whatever precedes it
Malformed(line) == line_outcome(line, 0, <<>>).kind = "error"

\* line m declares a label that an earlier line declares
Redeclares(m) ==
  \E d \in 1..(m - 1) : Declares(src[m], operand(src[m])) /\ Declares(src[d], operand(src[m]))

\* the lines the loop over the lines refuses, and all erroneous lines
RefusedLines == {m \in 1..Len(src) : Malformed(src[m]) \/ Redeclares(m)}
ErroneousLines == RefusedLines \cup Undeclared

Lowest(S) == CHOOSE m \in S : \A k \in S : m <= k

\* C11 as stated: when the source has erroneous lines, no Assembly is
\* produced and the diagnostic carries the 1-based number of the
\* lowest-numbered erroneous line.
C11_FirstErroneousLine ==
  (pc # "assemble" /\ ErroneousLines # {}) =>
    /\ pc = "failed"
    /\ code = <<>>
    /\ err.line = Lowest(ErroneousLines)

\* C11 amended: when the source has erroneous lines, no Assembly is produced
\* and the diagnostic carries the 1-based number of the lowest-numbered line
\* that is malformed or redeclares a label; when there is no such line, of the
\* lowest-numbered line that references an undeclared label. An assembly
\* fails only when the source has an erroneous line.
C11_FirstRefusedLine ==
  /\ (pc # "assemble" /\ ErroneousLines # {}) =>
       /\ pc = "failed"
       /\ code = <<>>
       /\ err.line = IF RefusedLines # {} THEN Lowest(RefusedLines)
                     ELSE Lowest(Undeclared)
  /\ pc = "failed" => ErroneousLines # {}

\* C11 witness: the assembly failed on a malformed line that follows a
\* reference to an undeclared label.
C11_Witness ==
  /\ pc = "failed"
  /\ code = <<>>
  /\ RefusedLines # {}
  /\ Undeclared # {}
  /\ Lowest(Undeclared) < Lowest(RefusedLines)
  /\ err.line = Lowest(RefusedLines)

\* ------------------------------------------------------ C12: initializers
\* SpecInit: the assembler alone, on initializers written in the three
\* notations among a label, a reference and a malformed initializer.
NotationLines == {"4: 29;", "4: 0x1D;", "4: 0b11101;", "[1024]: 34;",
                  "[0x400]: 0x22;", "[0b10000000000]: 0b100010;", "F: -1;",
                  "LBL a;", "GO a;", "4: 0x1G;"}

InitNotations == Start(Programs(NotationLines, MaxInitLines), {FALSE})

SpecInit == InitNotations /\ [][NextAsm]_vars

\* the two sides of an initializer line
LeftSide(line) == trim(split_once(body(line), ":")[1])
RightSide(line) == trim(split_once(body(line), ":")[2])

\* the number a literal denotes: the sum of its digits weighted by the
\* powers of its radix
DigitValue(c) == CHOOSE d \in 0..15 : At("0123456789ABCDEF", d + 1) = to_uppercase(c)

RECURSIVE Power(_, _)
Power(r, n) == IF n = 0 THEN 1 ELSE r * Power(r, n - 1)

RECURSIVE Weighted(_, _)
Weighted(digits, r) ==
  IF digits = "" THEN 0
  ELSE DigitValue(Head(digits)) * Power(r, Len(digits) - 1) + Weighted(Tail(digits), r)

Denoted(lit) ==
  IF starts_with(lit, "0x") THEN Weighted(SubSeq(lit, 3, Len(lit)), 16)
  ELSE IF starts_with(lit, "0b") THEN Weighted(SubSeq(lit, 3, Len(lit)), 2)
  ELSE IF starts_with(lit, "-") THEN 0 - Weighted(Tail(lit), 10)
  ELSE Weighted(lit, 10)

\* the text between the brackets of a memory initializer's left side
Bracketed(line) == SubSeq(LeftSide(line), 2, Len(LeftSide(line)) - 1)

\* C12: a step of the assembler over an initializer line emits no
\* instruction and leaves the labels alone; a one-digit left side appends
\* exactly the pair (register index, number denoted by the literal) to the
\* register initializers, a bracketed one appends exactly the pair (number
\* denoted by the address, number denoted by the literal) to the memory
\* initializers, whichever of the three notations the literals are written in.
C12_InitializerRecorded ==
  [][(pc = "assemble" /\ i' = i + 1 /\ IsInitializer(src[i + 1])) =>
       /\ instructions' = instructions
       /\ label_map' = label_map
       /\ lbl_lines' = lbl_lines
       /\ IF Len(LeftSide(src[i + 1])) = 1
          THEN /\ reg_inits' = Append(reg_inits,
                     <<DigitValue(LeftSide(src[i + 1])), V(Denoted(RightSide(src[i + 1])))>>)
               /\ mem_inits' = mem_inits
          ELSE /\ mem_inits' = Append(mem_inits,
                     <<V(Denoted(Bracketed(src[i + 1]))), V(Denoted(RightSide(src[i + 1])))>>)
               /\ reg_inits' = reg_inits]_vars

\* C12 witness: a hexadecimal memory initializer, a label and a binary
\* register initializer assembled to the pairs (1024, 34) and (4, 29), no
\* instruction, and the label at -1.
C12_Witness ==
  /\ pc = "assembled"
  /\ src = <<"[0x400]: 0x22;", "LBL a;", "4: 0b11101;">>
  /\ mem_inits = <<<<V(1024), V(34)>>>>
  /\ reg_inits = <<<<4, V(29)>>>>
  /\ code = <<>>
  /\ label_map = [a |-> -1]

\* ---------------------------------------------- C13: comments and blanks
\* Assembly::assemble as a function of the whole file: the loop over the
\* lines from line k on (lines 123-391), then the final pass (lines 392-434)
RECURSIVE assemble_rest(_, _, _)
assemble_rest(file, k, a) ==
  IF k > Len(file) THEN
    IF \E j \in 1..Len(a.instructions) :
         IsLabelRef(a.instructions[j]) /\ a.instructions[j][2] \notin DOMAIN a.label_map
    THEN [ok |-> FALSE, instructions |-> <<>>, reg_inits |-> <<>>, mem_inits |-> <<>>]
    ELSE [ok |-> TRUE,
          instructions |-> [j \in 1..Len(a.instructions) |->
                              resolved(a.instructions[j], a.label_map)],
          reg_inits |-> a.reg_inits,
          mem_inits |-> a.mem_inits]
  ELSE
    LET r == line_outcome(file[k], Len(a.instructions), a.label_map) IN
    IF r.kind = "error"
    THEN [ok |-> FALSE, instructions |-> <<>>, reg_inits |-> <<>>, mem_inits |-> <<>>]
    ELSE assemble_rest(file, k + 1,
           [instructions |-> IF r.kind = "ins" THEN Append(a.instructions, r.ins)
                             ELSE a.instructions,
            label_map |-> IF r.kind = "label" THEN insert(a.label_map, r.name, r.addr)
                          ELSE a.label_map,
            reg_inits |-> IF r.kind = "reg_init"
                          THEN Append(a.reg_inits, <<r.loc, r.val>>) ELSE a.reg_inits,
            mem_inits |-> IF r.kind = "mem_init"
                          THEN Append(a.mem_inits, <<r.loc, r.val>>) ELSE a.mem_inits])

assemble(file) ==
  assemble_rest(file, 1, [instructions |-> <<>>, label_map |-> <<>>,
                          reg_inits |-> <<>>, mem_inits |-> <<>>])

\* SpecComments: the assembler alone, on statements with and without
\* comments among blank and comment-only lines.
CommentLines == {"", "  ", "# c", "LBL a;", "LBL a; # c", "GO a;", "GO a;#c;",
                 "ADD 1, 2; #", "4: 0x1D; # c", "SF 5 # c;"}

InitComments == Start(Programs(CommentLines, MaxLabelLines), {FALSE})

SpecComments == InitComments /\ [][NextAsm]_vars

\* a line with nothing but white space, or nothing but a comment after it
BlankOrComment(line) ==
  \A k \in 1..Len(line) :
    At(line, k) \in WhiteSpace \/ \E h \in 1..k : At(line, h) = "#"

\* a line whose terminator comes before its comment
CommentAfterTerminator(line) ==
  \E k \in 1..Len(line) :
    /\ At(line, k) = "#"
    /\ \E h \in 1..(k - 1) : At(line, h) = ";"
    /\ \A h \in 1..(k - 1) : At(line, h) # "#"

\* the line without the comment after its terminator
WithoutComment(line) ==
  IF CommentAfterTerminator(line)
  THEN SubSeq(line, 1, (CHOOSE k \in 1..Len(line) :
                          At(line, k) = "#" /\ \A h \in 1..(k - 1) : At(line, h) # "#") - 1)
  ELSE line

\* the file without its blank and comment-only lines and without the
\* comments after terminators
Bare(file) ==
  LET kept == SelectSeq(file, LAMBDA line : ~BlankOrComment(line))
  IN [k \in 1..Len(kept) |-> WithoutComment(kept[k])]

\* C13: the assembly of a source succeeds exactly when the assembly of the
\* same source without its blank lines, comment-only lines and comments
\* after terminators does, and then yields the same instructions (resolved
\* label addresses included) and the same initializer lists.
C13_CommentsChangeNothing ==
  pc \in {"assembled", "failed"} =>
    \E bare \in {assemble(Bare(src))} :
      /\ bare.ok = (pc = "assembled")
      /\ pc = "assembled" =>
           /\ code = bare.instructions
           /\ reg_inits = bare.reg_inits
           /\ mem_inits = bare.mem_inits

\* C13 witness: a source with a comment line, a commented declaration and a
\* commented reference assembled to what its bare form assembles to.
C13_Witness ==
  /\ pc = "assembled"
  /\ src = <<"# c", "LBL a; # c", "GO a;#c;">>
  /\ Bare(src) = <<"LBL a; ", "GO a;">>
  /\ code = <<<<"GO", -1>>>>
  /\ assemble(Bare(src)).instructions = code

\* ------------------------------------------------------------ C14: SF
\* SpecFlags: batch runs that set the flags, declare a label, and then run
\* every kind of instruction.
FlagBlocks == {<<"1: 0x80000000;", "2: 0x7FFFFFFF;", "SF 5;", "LBL a;">>,
               <<"1: 0x80000000;", "2: 0x7FFFFFFF;", "SF 7;", "LBL a;">>}

FlagLines == {"SF 1;", "SF 2;", "GO a;", "BIN a;", "BIZ a;", "ADD 3, 7;",
              "AND 3, 7;", "MV 3, 7;", "NOT 3, 5;", "LS 3, 6;", "RS 3, 7;",
              "SW 1, 2;", "SA 2;", "RB 3;", "RD;", "WR;", "SB 7;"}

FlagFiles ==
  {pre \o rest : pre \in FlagBlocks, rest \in Programs(FlagLines, MaxArithLines)}

InitFlags == Start(FlagFiles, {FALSE})

SpecFlags == InitFlags /\ [][NextBatch]_vars

\* everything of the engine but the flags and register 0 is left as it was
OnlyFlagsAndCounter ==
  /\ \A r \in Registers \ {0} : vm'.registers[r] = vm.registers[r]
  /\ vm'.memory = vm.memory
  /\ vm'.MAR = vm.MAR
  /\ vm'.MBR = vm.MBR

\* C14: a turn of the loop that runs SF x leaves Z true iff registers[x] was
\* 0 and N true iff bit 31 of registers[x] was clear, so Z implies N, and
\* changes nothing else but the loop's increment of register 0.
C14_SetFlags ==
  [][(Executed /\ fetch(vm, code)[1] = "SF") =>
       LET v == vm.registers[fetch(vm, code)[2]] IN
       /\ vm'.Z = (v[1] = 0 /\ v[2] = 0)
       /\ vm'.N = (Bit(v, 31) = 0)
       /\ vm'.Z => vm'.N
       /\ OnlyFlagsAndCounter
       /\ vm'.registers[0] = VAdd(vm.registers[0], V(1))]_vars

\* C14 witness: SF has just run on a register whose bit 31 is set and left
\* both flags false, after an SF that had set both.
C14_Witness ==
  /\ pc = "run_code"
  /\ steps = 2
  /\ src[3] = "SF 5;"
  /\ op = <<"SF", 1>>
  /\ vm.registers[1] = <<Limb \div 2, 0>>
  /\ ~vm.Z
  /\ ~vm.N

\* ----------------------------------------------------- C15: breakpoints
\* the debug loop is at its head with an instruction to fetch
AtLoopHead == pc = "run_debug" /\ in_code(vm, code)

\* C15: at the head of the debug loop in continue-mode, before run-to-
\* completion was asked for, the turn stops and prompts, executing nothing,
\* if and only if the address in register 0 is in the breakpoint set as it
\* then is; otherwise the turn executes the instruction without prompting.
C15_BreakpointHalts ==
  [][(AtLoopHead /\ cont /\ debug) =>
       /\ (pc' = "prompt") = (vm.registers[0] \in breakpoints)
       /\ pc' = "prompt" => (vm' = vm /\ steps' = steps)
       /\ pc' # "prompt" => steps' = steps + 1]_vars

\* C15 witness: a session in continue-mode has come round a two-instruction
\* loop to the address of its only breakpoint and has stopped there.
C15_Witness ==
  /\ pc = "prompt"
  /\ cont
  /\ debug
  /\ steps >= 2
  /\ Len(code) = 2
  /\ breakpoints = {V(0)}
  /\ vm.registers[0] = V(0)

\* ------------------------------------------------- C16: what run_debug reports
\* the operator's line asks for the q command: its first character, white
\* space aside, is q in either case
AsksToQuit(line) == trim(line) # "" /\ Head(trim(line)) \in {"q", "Q"}

\* C16: a line read at a prompt makes run_debug report false if and only if
\* it asks for the q command, and then nothing is executed and the engine is
\* left as it was at the prompt; run_debug reports at most once, false only
\* from a prompt, and true if and only if the loop finds register 0 at or
\* past the number of instructions.
C16_Reports ==
  [][/\ \A line \in Inputs :
          read(line) =>
            /\ (completed' = "false") = AsksToQuit(line)
            /\ AsksToQuit(line) => (vm' = vm /\ steps' = steps /\ pc' = "exited")
     /\ completed' # completed =>
          /\ completed = "none"
          /\ completed' = "false" => pc = "prompt"
          /\ completed' = "true" => (pc = "run_debug" /\ ~in_code(vm, code))
     /\ (pc = "run_debug" /\ ~in_code(vm, code)) =>
          (completed' = "true" /\ pc' = "exited" /\ vm' = vm)]_vars

\* C16 witness: the operator quit at a prompt after one instruction had run,
\* with the next one pending.
C16_Witness ==
  /\ pc = "exited"
  /\ completed = "false"
  /\ steps = 1
  /\ in_code(vm, code)

\* ------------------------------------------------ C17: the program counter
\* SpecRange: batch runs of sources whose two-register instructions carry
\* arguments of more than one character, among labels, branches and moves
\* into register 0.
RangeLines == {"ADD 1F, 2;", "MV 3, -1;", "ADD 1, 2;", "MV 0, 7;", "LBL a;",
               "GO a;", "BIZ a;", "SF 5;"}

InitRange == Start(Programs(RangeLines, MaxArithLines), {FALSE})

SpecRange == InitRange /\ [][NextBatch]_vars

\* the run is over, one way or another
RunEnded == pc \in {"exited", "panicked", "unmatched"}

\* C17 as stated: whenever a loop is about to fetch, register 0 is within
\* [0, number of instructions), and a run that has ended has ended normally,
\* with register 0 at or past the number of instructions.
C17_FetchInCode ==
  /\ (pc \in {"run_code", "run_debug"} /\ in_code(vm, code)) =>
       /\ vm.registers[0][1] = 0
       /\ vm.registers[0][2] < Len(code)
  /\ RunEnded => (pc = "exited" /\ ~in_code(vm, code))

\* ------------------------------------------------ C18: run to completion
\* the operator's line asks for the r command
AsksToRun(line) == trim(line) # "" /\ Head(trim(line)) \in {"r", "R"}

\* a turn of the batch loop: fetch, run_op, increment register 0
BatchTurn ==
  /\ vm' = increment(run_op(vm, fetch(vm, code)))
  /\ steps' = steps + 1

\* C18: a line asking for r at a prompt runs the pending instruction as a
\* turn of the batch loop and ends debugging; from then on, whatever the
\* breakpoints and continue-mode are, no step prompts, every turn with an
\* instruction to fetch is a turn of the batch loop, and the turn that finds
\* register 0 at or past the number of instructions reports completion.
C18_RunToCompletion ==
  [][/\ \A line \in Inputs :
          (read(line) /\ AsksToRun(line)) => (~debug' /\ BatchTurn /\ pc' = "run_debug")
     /\ ~debug =>
          /\ ~debug'
          /\ pc' # "prompt"
          /\ AtLoopHead => (BatchTurn /\ pc' = "run_debug")
          /\ (pc = "run_debug" /\ ~in_code(vm, code)) =>
               (completed' = "true" /\ pc' = "exited")]_vars

\* C18 witness: after r, the loop is in continue-mode at the address of a
\* breakpoint with an instruction to fetch, and the session is not at a
\* prompt.
C18_Witness ==
  /\ pc = "run_debug"
  /\ ~debug
  /\ cont
  /\ vm.registers[0] \in breakpoints
  /\ in_code(vm, code)
  /\ steps >= 2
  /\ steps < MaxSteps

\* ------------------------------------------------ C19: unrecognized input
\* the operator's line without its line terminator
Typed(line) == IF ends_with(line, "\n") THEN SubSeq(line, 1, Len(line) - 1) ELSE line

\* the lines the prompt lists, and the empty line
Listed == {"n", "", "b", "c", "r", "q"}

\* the first character of the line, white space aside, is one of the command
\* letters in either case, or the line is blank
Recognised(line) ==
  \/ trim(line) = ""
  \/ Head(trim(line)) \in {"n", "N", "b", "B", "c", "C", "r", "R", "q", "Q"}

\* C19 as stated: a line read at a prompt that is none of n, the empty line,
\* b, c, r, q aborts the session.
C19_UnlistedInputAborts ==
  [][\A line \in Inputs :
       (read(line) /\ Typed(line) \notin Listed) => pc' = "panicked"]_vars

\* C19 amended: a line read at a prompt aborts the session, with nothing
\* executed, if and only if it is not blank and its first character, white
\* space aside, is none of n, b, c, r, q in either case.
C19_UnrecognisedInputAborts ==
  [][\A line \in Inputs :
       read(line) =>
         /\ (pc' = "panicked") = ~Recognised(line)
         /\ pc' = "panicked" => (vm' = vm /\ steps' = steps /\ completed' = completed)]_vars

\* C19 witness: the session was aborted at a prompt after one instruction
\* had run, with the next one pending and nothing reported.
C19_Witness ==
  /\ pc = "panicked"
  /\ opt_debug
  /\ steps = 1
  /\ in_code(vm, code)
  /\ completed = "none"

\* ----------------------------------------------------------- C20: flags
\* C20: the engine main constructs has both flags false; a turn of the loop
\* that runs anything but SF leaves Z and N as they were; a turn that runs
\* BIN addr (BIZ addr) leaves register 0 at addr + 1, the loop's increment
\* included, when N (Z) is set, and otherwise one past where it was, and
\* changes nothing else.
C20_FlagsOnlyBySF ==
  [][/\ (pc = "assembled" /\ pc' # "assembled") => (~vm'.Z /\ ~vm'.N)
     /\ Executed =>
          LET ins == fetch(vm, code)
              next == VAdd(vm.registers[0], V(1))
          IN
          /\ ins[1] # "SF" => (vm'.Z = vm.Z /\ vm'.N = vm.N)
          /\ ins[1] = "BIN" =>
               /\ vm'.registers[0] = IF vm.N THEN V(ins[2] + 1) ELSE next
               /\ OnlyFlagsAndCounter
          /\ ins[1] = "BIZ" =>
               /\ vm'.registers[0] = IF vm.Z THEN V(ins[2] + 1) ELSE next
               /\ OnlyFlagsAndCounter]_vars

\* C20 witness: after an SF that set both flags and an SF that cleared them,
\* BIN has run without branching and register 0 is one past it.
C20_Witness ==
  /\ pc = "run_code"
  /\ src[3] = "SF 5;"
  /\ steps = 3
  /\ op # <<>>
  /\ op[1] = "BIN"
  /\ ~vm.N
  /\ ~vm.Z
  /\ vm.registers[0] = V(3)

\* ------------------------------------------------ C21: the b command
\* the operator's line asks for the b command
AsksToToggle(line) == trim(line) # "" /\ Head(trim(line)) \in {"b", "B"}

\* the breakpoint sets differ at exactly the address x
FlippedAt(before, after, x) ==
  /\ (x \in after) <=> (x \notin before)
  /\ before \ {x} = after \ {x}

\* C21: a line asking for b at a prompt flips the membership of the current
\* address in the breakpoint set and the prompt comes again at the same
\* address with no instruction executed: registers (register 0 among them),
\* memory, MAR, MBR, flags, continue-mode, debug-mode, the count of executed
\* turns and the pending instruction are unchanged, no other address's
\* breakpoint changes, and the set a second b would then produce is the set
\* before the first.
C21_ToggleOnly ==
  [][\A line \in Inputs :
       (read(line) /\ AsksToToggle(line)) =>
         /\ FlippedAt(breakpoints, breakpoints', vm.registers[0])
         /\ pc' = "prompt"
         /\ vm' = vm
         /\ cont' = cont
         /\ debug' = debug
         /\ steps' = steps
         /\ op' = op
         /\ completed' = completed
         /\ toggle(toggle(breakpoints, vm.registers[0]), vm'.registers[0]) = breakpoints]_vars

\* C21 witness: the session is at the prompt of address 1 after one executed
\* turn, address 1 has just been given a breakpoint by b, and the breakpoint
\* set at address 0 before the turn is still in the set.
C21_Witness ==
  /\ pc = "prompt"
  /\ steps = 1
  /\ vm.registers[0] = V(1)
  /\ breakpoints = {V(0), V(1)}

\* ------------------------------------------------ C22: debug and batch
\* VM::run_code, lines 158-164: the engine after the first k turns of the
\* loop, or after the whole run if the loop ends before
RECURSIVE run_code_turns(_, _, _)
run_code_turns(self, prog, k) ==
  IF k = 0 \/ ~in_code(self, prog) THEN self
  ELSE run_code_turns(increment(run_op(self, fetch(self, prog))), prog, k - 1)

\* the engine run_code has after as many turns as the session has executed
BatchEngine == run_code_turns(new(reg_inits, mem_inits), code, steps)

\* the session is inside run_debug, or run_debug has returned true
InDebugRun ==
  /\ opt_debug
  /\ \/ pc \in {"run_debug", "prompt"}
     \/ pc = "exited" /\ completed = "true"

\* C22: in a debug session that has met neither q nor an unrecognized line,
\* the engine (registers, memory, MAR, MBR, flags) after every number of
\* executed turns is the engine run_code has after the same number of turns
\* of the same program from the same initial engine; when run_debug returns
\* true run_code has no further turn to make, so both end with the same
\* engine; and every step of the session either leaves the engine alone or
\* is one turn of the batch loop on the instruction run_code would fetch.
C22_DebugIsBatch ==
  /\ [](InDebugRun =>
          /\ vm = BatchEngine
          /\ (pc = "exited") =>
               (~in_code(vm, code) /\ run_code_turns(vm, code, 1) = vm))
  /\ [][(InDebugRun /\ pc' # "panicked" /\ pc' # "unmatched"
          /\ ~(pc' = "exited" /\ completed' = "false")) =>
          \/ vm' = vm /\ steps' = steps
          \/ BatchTurn /\ in_code(vm, code)]_vars

\* C22 witness: run_debug has returned true after at least three executed
\* turns, of which some were prompted and some were passed in continue-mode
\* with a breakpoint set, and the engine it ends with has a flag set.
C22_Witness ==
  /\ opt_debug
  /\ pc = "exited"
  /\ completed = "true"
  /\ steps >= 3
  /\ debug
  /\ cont
  /\ breakpoints # {}
  /\ vm.N \/ vm.Z

\* ------------------------------------------------ C23: the 17 opcodes
\* SpecOpcodes: batch runs, after a label declaration, of sources over a
\* line of every opcode the assembler emits.
OpcodeLines == FlagLines \cup {"PRINT;"}

OpcodeFiles == {<<"LBL a;">> \o rest : rest \in Programs(OpcodeLines, MaxArithLines)}

InitOpcodes == Start(OpcodeFiles, {FALSE})

SpecOpcodes == InitOpcodes /\ [][NextBatch]_vars

\* the opcodes the assembler's final pass emits: every mnemonic but LBL
Emitted == DOMAIN OP_MAP \ {"LBL"}

\* C23 as stated: the assembler emits 17 opcodes, and a turn of the loop
\* that fetches any of them executes it and goes on to the next turn; the
\* turn that fetches PRINT leaves registers, memory, MAR, MBR and flags as
\* they were but for the increment of register 0.
C23_EveryOpcodeExecuted ==
  [][(pc = "run_code" /\ in_code(vm, code) /\ steps' = steps + 1) =>
       /\ Cardinality(Emitted) = 17
       /\ fetch(vm, code)[1] \in Emitted
       /\ pc' = "run_code"
       /\ fetch(vm, code)[1] = "PRINT" => vm' = increment(vm)]_vars

====
